---- MODULE Spec2Model ----
(***************************************************************************)
(* Mum's Disco (src/mums_disco_app.py): the TinyDB playlist store          *)
(* (song_exists, add_song_to_db, get_all_songs), the Google-Sheets backup  *)
(* and the search / confirm handlers of main().                            *)
(*                                                                         *)
(* Text is modelled as a sequence of character codes, so that str.lower()  *)
(* and Python's string comparison are computed, not assumed.  Each TinyDB  *)
(* call (db.search, db.all, db.insert) is one atomic step; the Python code *)
(* between two such calls is local to its caller.                          *)
(***************************************************************************)
EXTENDS Integers, Sequences, FiniteSets, TLC

VARIABLES
    db,                 \* playlist.json: the documents, in insertion order
    log,                \* history: the add_song_to_db calls that returned True
    clock,              \* the last instant datetime.now() returned
    pc,                 \* per caller: where it stands in its handler
    song_data,          \* per caller: the argument of add_song_to_db
    song_entry,         \* per caller: the local song_entry of add_song_to_db
    ret,                \* per caller: what its last add_song_to_db returned
    found_song,         \* per session: st.session_state.found_song
    show_confirmation,  \* per session: st.session_state.show_confirmation
    seen_len,           \* history: len(db) when main's own duplicate check ran
    gc,                 \* the cached gspread client, or None
    sheet_exists,       \* the remote spreadsheet has been created
    sheet,              \* the rows of the remote spreadsheet
    last,               \* the step just taken: who, what it displayed or returned
    listing             \* what get_all_songs returned in the step just taken

vars == <<db, log, clock, pc, song_data, song_entry, ret, found_song,
          show_confirmation, seen_len, gc, sheet_exists, sheet, last, listing>>

----------------------------------------------------------------------------
(* Bounds of the model *)

\* documents the store may hold
MaxSongs == 2
\* documents of a playlist.json handed to get_all_songs
MaxDocs == 3

\* two callers (Streamlit sessions, each run by its own thread)
Callers == {1, 2}

----------------------------------------------------------------------------
(* Text *)

None == [none |-> TRUE]

\* "Wa", "WA", "Dq": titles; "AB", "ab", "AB, A", "AB ": artists
Wa == <<87, 97>>
WA == <<87, 65>>
Dq == <<68, 113>>
AB == <<65, 66>>
ab == <<97, 98>>
ABcA == <<65, 66, 44, 32, 65>>
ABsp == <<65, 66, 32>>
Lp == <<76, 112>>

Titles == {Wa, WA, Dq}
Artists == {AB, ab, ABcA, ABsp}

\* the candidates search_spotify_song can return
Candidates ==
    { [title |-> Wa, artist |-> AB,   album |-> Lp],
      [title |-> WA, artist |-> ab,   album |-> Wa],
      [title |-> Wa, artist |-> ABcA, album |-> Lp],
      [title |-> Dq, artist |-> AB,   album |-> Lp] }

\* str.lower() on one character: 'A'..'Z' move to 'a'..'z'
LowerChar(c) == IF 65 <= c /\ c <= 90 THEN c + 32 ELSE c

\* str.lower()
Lower(s) == [i \in DOMAIN s |-> LowerChar(s[i])]

\* Python's str < str: by code point, a proper prefix is smaller
RECURSIVE StrLess(_, _)
StrLess(x, y) ==
    IF Len(y) = 0 THEN FALSE
    ELSE IF Len(x) = 0 THEN TRUE
    ELSE IF Head(x) # Head(y) THEN Head(x) < Head(y)
    ELSE StrLess(Tail(x), Tail(y))

\* n written in w decimal digits, zero padded
RECURSIVE Pad(_, _)
Pad(n, w) == IF w = 0 THEN <<>> ELSE Append(Pad(n \div 10, w - 1), 48 + (n % 10))

\* datetime.isoformat(): the date, hour and minute are the same for every
\* instant of the model and are left out; "SS" follows, and ".ffffff" only
\* when the microsecond is not zero
isoformat(t) ==
    Pad(t[1], 2) \o (IF t[2] = 0 THEN <<>> ELSE <<46>> \o Pad(t[2], 6))

\* instants <<second, microsecond>>: "00", "00.000001", "01"
Instants == {<<0, 0>>, <<0, 1>>, <<1, 0>>}

\* the instants the running clock passes through
Ticks == {<<0, 0>>, <<0, 1>>}

\* a <= b on instants
NotBefore(a, b) == a[1] < b[1] \/ (a[1] = b[1] /\ a[2] <= b[2])

----------------------------------------------------------------------------
(* The store *)

\* mutant: the titles are compared as they are written
TitleTest_Exact(doc, title) == doc.title = title

\* Song.title.test(lambda x: x.lower() == title.lower())
TitleTest(doc, title) == Lower(doc.title) = Lower(title)

\* Song.artist.test(lambda x: x.lower() == artist.lower())
ArtistTest(doc, artist) == Lower(doc.artist) = Lower(artist)

\* mutant: the query joins the two tests with | instead of &
Matches_Either(doc, title, artist) == TitleTest(doc, title) \/ ArtistTest(doc, artist)

\* mutant: neither field is lower-cased
Matches_CaseSensitive(doc, title, artist) == doc.title = title /\ doc.artist = artist

\* the query of song_exists: both tests
Matches(doc, title, artist) == TitleTest(doc, title) /\ ArtistTest(doc, artist)

\* db.search(query)
db_search(d, title, artist) ==
    SelectSeq(d, LAMBDA doc : Matches(doc, title, artist))

song_exists(d, title, artist) == Len(db_search(d, title, artist)) > 0

\* the song_entry add_song_to_db builds: the candidate's fields, added_at, id
MakeEntry(cand, now, d) ==
    [title |-> cand.title, artist |-> cand.artist, album |-> cand.album,
     added_at |-> isoformat(now), id |-> Len(d) + 1]

\* mutant: the table refuses a second document with the same title and artist
db_insert_Unique(d, doc) ==
    IF \E i \in DOMAIN d : Matches(d[i], doc.title, doc.artist) THEN d ELSE Append(d, doc)

\* mutant: a document with the same title is overwritten (an upsert on title)
db_insert_Upsert(d, doc) ==
    IF \E i \in DOMAIN d : TitleTest(d[i], doc.title)
    THEN [i \in DOMAIN d |-> IF TitleTest(d[i], doc.title) THEN doc ELSE d[i]]
    ELSE Append(d, doc)

\* db.insert(song_entry)
db_insert(d, doc) == Append(d, doc)

\* mutant: a missing "added_at" counts as "9", above every timestamp
SortKey_Nine(doc) == IF "added_at" \in DOMAIN doc THEN doc.added_at ELSE <<57>>

\* x.get("added_at", "")
SortKey(doc) == IF "added_at" \in DOMAIN doc THEN doc.added_at ELSE <<>>

\* one step of a stable descending sort: doc goes behind every element whose
\* key is not smaller than its own
RECURSIVE InsertDesc(_, _)
InsertDesc(sorted, doc) ==
    IF sorted = <<>> THEN <<doc>>
    ELSE IF StrLess(SortKey(Head(sorted)), SortKey(doc))
         THEN <<doc>> \o sorted
         ELSE <<Head(sorted)>> \o InsertDesc(Tail(sorted), doc)

\* sorted(songs, key=..., reverse=True): stable, so equal keys keep their order
RECURSIVE SortedDesc(_)
SortedDesc(songs) ==
    IF songs = <<>> THEN <<>>
    ELSE InsertDesc(SortedDesc(SubSeq(songs, 1, Len(songs) - 1)), songs[Len(songs)])

get_all_songs(d) == SortedDesc(d)

----------------------------------------------------------------------------
(* State *)

\* the step just taken: who took it, the call that returned or the message
\* that was displayed, its value, and the argument it was about
Ev(who, what, val, arg) == [who |-> who, what |-> what, val |-> val, arg |-> arg]

Quiet == Ev(0, "step", "None", None)

InFlight == Cardinality({c \in Callers : pc[c] \in {"add_check", "add_build", "add_insert"}})

\* the model stops starting insertions once MaxSongs documents are stored or
\* on their way
Room == Len(db) + InFlight < MaxSongs

Init ==
    /\ db = <<>>
    /\ log = <<>>
    /\ clock = <<0, 0>>
    /\ pc = [c \in Callers |-> "idle"]
    /\ song_data = [c \in Callers |-> None]
    /\ song_entry = [c \in Callers |-> None]
    /\ ret = [c \in Callers |-> "None"]
    /\ found_song = [c \in Callers |-> None]
    /\ show_confirmation = [c \in Callers |-> FALSE]
    /\ seen_len = [c \in Callers |-> 0]
    /\ gc \in {"client", "None"}
    /\ sheet_exists = FALSE
    /\ sheet = <<>>
    /\ last = Quiet
    /\ listing = <<>>

AppVars == <<found_song, show_confirmation, seen_len, gc, sheet_exists, sheet>>

----------------------------------------------------------------------------
(* add_song_to_db, one TinyDB call per step *)

\* line 194: if song_exists(db, song_data["title"], song_data["artist"]): return False
AddCheck(c) ==
    /\ pc[c] = "add_check"
    /\ IF song_exists(db, song_data[c].title, song_data[c].artist)
       THEN /\ ret' = [ret EXCEPT ![c] = "False"]
            /\ pc' = [pc EXCEPT ![c] = "add_done"]
            /\ last' = Ev(c, "add_song_to_db", "False", song_data[c])
       ELSE /\ ret' = ret
            /\ pc' = [pc EXCEPT ![c] = "add_build"]
            /\ last' = Quiet
    /\ listing' = <<>>
    /\ UNCHANGED <<db, log, clock, song_data, song_entry>>
    /\ UNCHANGED AppVars

\* lines 197-201: song_entry = {**song_data, "added_at": now, "id": len(db.all()) + 1}
AddBuild(c) ==
    /\ pc[c] = "add_build"
    /\ \E now \in Ticks :
        /\ NotBefore(clock, now)
        /\ clock' = now
        /\ song_entry' = [song_entry EXCEPT ![c] = MakeEntry(song_data[c], now, db)]
    /\ pc' = [pc EXCEPT ![c] = "add_insert"]
    /\ last' = Quiet
    /\ listing' = <<>>
    /\ UNCHANGED <<db, log, song_data, ret>>
    /\ UNCHANGED AppVars

\* lines 203-204: db.insert(song_entry); return True
AddInsert(c) ==
    /\ pc[c] = "add_insert"
    /\ db' = db_insert(db, song_entry[c])
    /\ log' = Append(log, [who |-> c, cand |-> song_data[c]])
    /\ ret' = [ret EXCEPT ![c] = "True"]
    /\ song_entry' = [song_entry EXCEPT ![c] = None]
    /\ pc' = [pc EXCEPT ![c] = "add_done"]
    /\ last' = Ev(c, "add_song_to_db", "True", song_data[c])
    /\ listing' = <<>>
    /\ UNCHANGED <<clock, song_data>>
    /\ UNCHANGED AppVars

----------------------------------------------------------------------------
(* The store called directly: add_song_to_db, song_exists, get_all_songs *)

Returned(c) == pc[c] \in {"idle", "add_done"}

\* add_song_to_db(db, cand) is entered
CallAdd(c, cand) ==
    /\ Returned(c)
    /\ Room
    /\ pc' = [pc EXCEPT ![c] = "add_check"]
    /\ song_data' = [song_data EXCEPT ![c] = cand]
    /\ ret' = [ret EXCEPT ![c] = "None"]
    /\ last' = Quiet
    /\ listing' = <<>>
    /\ UNCHANGED <<db, log, clock, song_entry>>
    /\ UNCHANGED AppVars

\* song_exists(db, title, artist)
CallExists(c, title, artist) ==
    /\ Returned(c)
    /\ last' = Ev(c, "song_exists",
                  IF song_exists(db, title, artist) THEN "True" ELSE "False",
                  [title |-> title, artist |-> artist])
    /\ listing' = <<>>
    /\ UNCHANGED <<db, log, clock, pc, song_data, song_entry, ret>>
    /\ UNCHANGED AppVars

\* get_all_songs(db)
CallGetAll(c) ==
    /\ Returned(c)
    /\ listing' = get_all_songs(db)
    /\ last' = Ev(c, "get_all_songs", "None", None)
    /\ UNCHANGED <<db, log, clock, pc, song_data, song_entry, ret>>
    /\ UNCHANGED AppVars

\* the (title, artist) pairs callers ask song_exists about
Probes ==
    { [title |-> WA, artist |-> ab],
      [title |-> Wa, artist |-> ABsp],
      [title |-> Dq, artist |-> ABcA] }

StoreStep(c) ==
    \/ \E cand \in Candidates : CallAdd(c, cand)
    \/ AddCheck(c)
    \/ AddBuild(c)
    \/ AddInsert(c)
    \/ \E q \in Probes : CallExists(c, q.title, q.artist)
    \/ CallGetAll(c)

\* the store's calls never reach the sheet: one value of gc is enough
InitStore ==
    /\ Init
    /\ gc = "client"

\* callers of the store whose steps interleave
NextStore == \E c \in Callers : StoreStep(c)

SpecStore == InitStore /\ [][NextStore]_vars

\* calls executed one at a time: a caller moves only while no other call is
\* in progress
Alone(c) == \A o \in Callers \ {c} : Returned(o)

NextStoreSeq ==
    \E c \in Callers :
        \/ \E cand \in Candidates : Alone(c) /\ CallAdd(c, cand)
        \/ Alone(c) /\ AddCheck(c)
        \/ Alone(c) /\ AddBuild(c)
        \/ Alone(c) /\ AddInsert(c)
        \/ \E q \in Probes : Alone(c) /\ CallExists(c, q.title, q.artist)
        \/ Alone(c) /\ CallGetAll(c)

SpecStoreSeq == InitStore /\ [][NextStoreSeq]_vars

----------------------------------------------------------------------------
(* get_all_songs on any playlist.json *)

\* documents as add_song_to_db writes them, and documents of another origin
\* that have no "added_at"
Stamped == { [title |-> t, artist |-> AB, album |-> Lp, added_at |-> isoformat(i), id |-> 1] :
                t \in {Wa, Dq}, i \in Instants }

Unstamped == { [title |-> t, artist |-> AB, album |-> Lp, id |-> 1] : t \in {Wa, Dq} }

Docs == Stamped \cup Unstamped

SeqsUpTo(S, n) == UNION { [1..k -> S] : k \in 0..n }

InitSort ==
    /\ db \in SeqsUpTo(Docs, MaxDocs)
    /\ log = <<>>
    /\ clock = <<0, 0>>
    /\ pc = [c \in Callers |-> "idle"]
    /\ song_data = [c \in Callers |-> None]
    /\ song_entry = [c \in Callers |-> None]
    /\ ret = [c \in Callers |-> "None"]
    /\ found_song = [c \in Callers |-> None]
    /\ show_confirmation = [c \in Callers |-> FALSE]
    /\ seen_len = [c \in Callers |-> 0]
    /\ gc = "client"
    /\ sheet_exists = FALSE
    /\ sheet = <<>>
    /\ last = Quiet
    /\ listing = <<>>

NextSort == \E c \in Callers : CallGetAll(c)

SpecSort == InitSort /\ [][NextSort]_vars

----------------------------------------------------------------------------
(* backup_to_sheets *)

Header == <<"Title", "Artist", "Album", "Spotify URL", "Added At">>

\* the remote calls of backup_to_sheets, in order; one of them may raise
FailPoints == {"none", "open", "create", "header", "append"}

\* the row appended: song is the candidate, which has no "added_at", so the
\* default datetime.now().isoformat() is what is written
SheetRow(song, now) ==
    <<song.title, song.artist, song.album, "spotify_url",
      IF "added_at" \in DOMAIN song THEN song.added_at ELSE isoformat(now)>>

\* backup_to_sheets(gc, song_data): the value returned ("Backup failed" is False
\* after st.error), and the sheet and the clock it leaves
backup_to_sheets(client, song, fail_at, now) ==
    LET same == [result |-> "False", exists |-> sheet_exists, rows |-> sheet, clock |-> clock]
        created == ~sheet_exists
        rows1 == IF created THEN <<Header>> ELSE sheet
    IN  IF client = "None" THEN same
        ELSE IF fail_at = "open" THEN [same EXCEPT !.result = "Backup failed"]
        ELSE IF created /\ fail_at = "create" THEN [same EXCEPT !.result = "Backup failed"]
        ELSE IF created /\ fail_at = "header"
             THEN [same EXCEPT !.result = "Backup failed", !.exists = TRUE]
        ELSE IF fail_at = "append"
             THEN [result |-> "Backup failed", exists |-> TRUE, rows |-> rows1, clock |-> now]
        ELSE [result |-> "True", exists |-> TRUE,
              rows |-> Append(rows1, SheetRow(song, now)), clock |-> now]

----------------------------------------------------------------------------
(* main(): the search form and the confirmation buttons of one session *)

\* str.strip() (the blank is the only whitespace of the model)
RECURSIVE LStrip(_)
LStrip(s) == IF s # <<>> /\ Head(s) = 32 THEN LStrip(Tail(s)) ELSE s

RECURSIVE RStrip(_)
RStrip(s) == IF s # <<>> /\ s[Len(s)] = 32 THEN RStrip(SubSeq(s, 1, Len(s) - 1)) ELSE s

Strip(s) == RStrip(LStrip(s))

\* what the user may have typed: " ", "Wa "
Inputs == {<<32>>, <<87, 97, 32>>}

\* the tracks the search service answers with
Tracks ==
    { [title |-> Wa, artist |-> AB, album |-> Lp],
      [title |-> Dq, artist |-> AB, album |-> Lp] }

\* search_spotify_song(song_name, token): items is data["tracks"]["items"]
search_spotify_song(song_name, token, status, items) ==
    IF token = "None" THEN None
    ELSE IF status = 200 /\ items # <<>> THEN items[1]
    ELSE None

\* mutant: the result is stored without the test "if song_data"
HandleSearch_Unguarded(s, song_input, token, status, items) ==
    /\ pc[s] = "idle"
    /\ IF Strip(song_input) # <<>>
       THEN IF token # "None"
            THEN LET result == search_spotify_song(Strip(song_input), token, status, items)
                 IN  /\ found_song' = [found_song EXCEPT ![s] = result]
                     /\ show_confirmation' = [show_confirmation EXCEPT ![s] = TRUE]
                     /\ last' = IF result # None THEN Quiet
                                ELSE Ev(s, "no_songs_found", "None", None)
            ELSE /\ last' = Ev(s, "spotify_error", "None", None)
                 /\ UNCHANGED <<found_song, show_confirmation>>
       ELSE /\ last' = Quiet
            /\ UNCHANGED <<found_song, show_confirmation>>
    /\ listing' = <<>>
    /\ UNCHANGED <<db, log, clock, pc, song_data, song_entry, ret, seen_len, gc,
                   sheet_exists, sheet>>

\* lines 267-279: if search_button and song_input.strip(): ...
HandleSearch(s, song_input, token, status, items) ==
    /\ pc[s] = "idle"
    /\ IF Strip(song_input) # <<>>
       THEN IF token # "None"
            THEN LET result == search_spotify_song(Strip(song_input), token, status, items)
                 IN  IF result # None
                     THEN /\ found_song' = [found_song EXCEPT ![s] = result]
                          /\ show_confirmation' = [show_confirmation EXCEPT ![s] = TRUE]
                          /\ last' = Quiet
                     ELSE /\ last' = Ev(s, "no_songs_found", "None", None)
                          /\ UNCHANGED <<found_song, show_confirmation>>
            ELSE /\ last' = Ev(s, "spotify_error", "None", None)
                 /\ UNCHANGED <<found_song, show_confirmation>>
       ELSE /\ last' = Quiet
            /\ UNCHANGED <<found_song, show_confirmation>>
    /\ listing' = <<>>
    /\ UNCHANGED <<db, log, clock, pc, song_data, song_entry, ret, seen_len, gc,
                   sheet_exists, sheet>>

\* line 282: the confirmation block is shown
Confirming(s) ==
    /\ pc[s] = "idle"
    /\ show_confirmation[s]
    /\ found_song[s] # None

\* mutant: main calls add_song_to_db without its own check
AlreadyInPlaylist_Skipped(s) == FALSE

\* line 305: main's own duplicate check
AlreadyInPlaylist(s) == song_exists(db, found_song[s].title, found_song[s].artist)

\* lines 303-309: "Yes" is pressed; add_song_to_db is entered unless the song
\* is found to exist
ConfirmYes(s) ==
    /\ Confirming(s)
    /\ IF AlreadyInPlaylist(s)
       THEN /\ last' = Ev(s, "already_exists", "None", None)
            /\ UNCHANGED <<pc, song_data, ret, seen_len>>
       ELSE /\ Room
            /\ pc' = [pc EXCEPT ![s] = "add_check"]
            /\ song_data' = [song_data EXCEPT ![s] = found_song[s]]
            /\ ret' = [ret EXCEPT ![s] = "None"]
            /\ seen_len' = [seen_len EXCEPT ![s] = Len(db)]
            /\ last' = Quiet
    /\ listing' = <<>>
    /\ UNCHANGED <<db, log, clock, song_entry, found_song, show_confirmation, gc,
                   sheet_exists, sheet>>

\* mutant: backup_to_sheets lets the exception through; the script run ends
\* with it, before the session state is cleared
ConfirmAfterAdd_Propagates(s) ==
    /\ pc[s] = "add_done"
    /\ IF ret[s] = "True"
       THEN \E fail_at \in FailPoints, now \in Ticks :
               /\ NotBefore(clock, now)
               /\ LET b == backup_to_sheets(gc, found_song[s], fail_at, now)
                  IN  /\ sheet' = b.rows
                      /\ sheet_exists' = b.exists
                      /\ clock' = b.clock
                      /\ IF b.result = "Backup failed"
                         THEN /\ last' = Ev(s, "exception", b.result, found_song[s])
                              /\ UNCHANGED <<found_song, show_confirmation>>
                         ELSE /\ last' = Ev(s, "song_added", b.result, found_song[s])
                              /\ found_song' = [found_song EXCEPT ![s] = None]
                              /\ show_confirmation' = [show_confirmation EXCEPT ![s] = FALSE]
       ELSE /\ last' = Ev(s, "add_failed", "None", found_song[s])
            /\ UNCHANGED <<found_song, show_confirmation, sheet, sheet_exists, clock>>
    /\ pc' = [pc EXCEPT ![s] = "idle"]
    /\ song_data' = [song_data EXCEPT ![s] = None]
    /\ ret' = [ret EXCEPT ![s] = "None"]
    /\ seen_len' = [seen_len EXCEPT ![s] = 0]
    /\ listing' = <<>>
    /\ UNCHANGED <<db, log, song_entry, gc>>

\* lines 309-320: add_song_to_db has returned
ConfirmAfterAdd(s) ==
    /\ pc[s] = "add_done"
    /\ IF ret[s] = "True"
       THEN \E fail_at \in FailPoints, now \in Ticks :
               /\ NotBefore(clock, now)
               /\ LET b == backup_to_sheets(gc, found_song[s], fail_at, now)
                  IN  /\ sheet' = b.rows
                      /\ sheet_exists' = b.exists
                      /\ clock' = b.clock
                      /\ last' = Ev(s, "song_added", b.result, found_song[s])
               /\ found_song' = [found_song EXCEPT ![s] = None]
               /\ show_confirmation' = [show_confirmation EXCEPT ![s] = FALSE]
       ELSE /\ last' = Ev(s, "add_failed", "None", found_song[s])
            /\ UNCHANGED <<found_song, show_confirmation, sheet, sheet_exists, clock>>
    /\ pc' = [pc EXCEPT ![s] = "idle"]
    /\ song_data' = [song_data EXCEPT ![s] = None]
    /\ ret' = [ret EXCEPT ![s] = "None"]
    /\ seen_len' = [seen_len EXCEPT ![s] = 0]
    /\ listing' = <<>>
    /\ UNCHANGED <<db, log, song_entry, gc>>

\* lines 322-326: "No" is pressed
ConfirmNo(s) ==
    /\ Confirming(s)
    /\ found_song' = [found_song EXCEPT ![s] = None]
    /\ show_confirmation' = [show_confirmation EXCEPT ![s] = FALSE]
    /\ last' = Quiet
    /\ listing' = <<>>
    /\ UNCHANGED <<db, log, clock, pc, song_data, song_entry, ret, seen_len, gc,
                   sheet_exists, sheet>>

\* a press of the search button: what was typed, what get_spotify_token()
\* returns, and the service's answer; an answer that is never fetched (nothing
\* typed, no token) or never read (status not 200) is given once
SearchCases ==
    { r \in [song_input : Inputs, token : {"None", "token"}, status : {200, 429},
             items : {<<>>} \cup {<<track>> : track \in Tracks}] :
        /\ (Strip(r.song_input) = <<>> \/ r.token = "None") => (r.status = 200 /\ r.items = <<>>)
        /\ r.status # 200 => r.items = <<>>
        /\ Strip(r.song_input) = <<>> => r.token = "token" }

SessionStep(s) ==
    \/ \E r \in SearchCases : HandleSearch(s, r.song_input, r.token, r.status, r.items)
    \/ ConfirmYes(s)
    \/ AddCheck(s)
    \/ AddBuild(s)
    \/ AddInsert(s)
    \/ ConfirmAfterAdd(s)
    \/ ConfirmNo(s)

Next == \E s \in Callers : SessionStep(s)

\* the sessions of the app, their steps interleaved
Spec == Init /\ [][Next]_vars

----------------------------------------------------------------------------
(* What the claims speak of *)

\* two characters are the same letter, whatever their case
SameLetter(x, y) ==
    \/ x = y
    \/ (65 <= x /\ x <= 90 /\ y = x + 32)
    \/ (65 <= y /\ y <= 90 /\ x = y + 32)

\* two texts are equal when compared case-insensitively
EqIgnoreCase(x, y) ==
    /\ Len(x) = Len(y)
    /\ \A i \in DOMAIN x : SameLetter(x[i], y[i])

\* two songs have the same title and the same artist, case-insensitively
SameSong(a, b) == EqIgnoreCase(a.title, b.title) /\ EqIgnoreCase(a.artist, b.artist)

\* a stored document is the candidate it was made from
MadeFrom(doc, cand) ==
    doc.title = cand.title /\ doc.artist = cand.artist /\ doc.album = cand.album

\* the step just taken is add_song_to_db returning
AddReturned == last.what = "add_song_to_db"

\* C1: with the insert calls executed one at a time from an empty store, no
\* two stored records have the same title and artist compared
\* case-insensitively
C1_NoDuplicateSongs ==
    \A i, j \in DOMAIN db : i < j => ~SameSong(db[i], db[j])

\* two songs of the same title are stored, by different artists
C1_Witness ==
    /\ Len(db) >= 2
    /\ db[1].title = db[2].title
    /\ db[1].artist # db[2].artist

\* C2: one call at a time, an insert of a (title, artist) pair that an
\* earlier insert was accepted for, in the same or another letter case,
\* returns False and leaves the store as it was; any other insert returns
\* True and stores one more record
C2_InsertIdempotent ==
    [][AddReturned' =>
         IF \E i \in DOMAIN log : SameSong(log[i].cand, last'.arg)
         THEN /\ last'.val = "False"
              /\ ret'[last'.who] = "False"
              /\ db' = db
              /\ log' = log
         ELSE /\ last'.val = "True"
              /\ ret'[last'.who] = "True"
              /\ Len(db') = Len(db) + 1]_vars

\* "WA" by "ab" was refused after "Wa" by "AB" had been stored
C2_Witness ==
    /\ AddReturned
    /\ last.val = "False"
    /\ Len(db) = 1
    /\ Len(log) = 1
    /\ last.arg.title # db[1].title
    /\ last.arg.artist # db[1].artist

\* C3: when two calls for the same (title, artist) have both returned True,
\* they were two callers' calls and the store holds one record for each,
\* two records of the same song
C3_BothWrite ==
    \A i, j \in DOMAIN log :
        (i < j /\ SameSong(log[i].cand, log[j].cand)) =>
            /\ log[i].who # log[j].who
            /\ j <= Len(db)
            /\ MadeFrom(db[i], log[i].cand)
            /\ MadeFrom(db[j], log[j].cand)
            /\ SameSong(db[i], db[j])

\* both callers' calls have returned True and the store holds the song twice
C3_Witness ==
    /\ \A c \in Callers : pc[c] = "add_done" /\ ret[c] = "True"
    /\ Len(db) = 2
    /\ SameSong(db[1], db[2])
    /\ log[1].who # log[2].who

\* C4: stored records have pairwise distinct ids, each the number of records
\* stored before it plus one, increasing in insertion order
C4_SequenceIds ==
    /\ \A i, j \in DOMAIN db : i # j => db[i].id # db[j].id
    /\ \A i \in DOMAIN db : db[i].id = i
    /\ \A i, j \in DOMAIN db : i < j => db[i].id < db[j].id

\* C5: a step either leaves the store as it is or appends one record to it,
\* and appends only as an add_song_to_db that returns True; one that returns
\* False, song_exists and get_all_songs leave it as it is; the records are as
\* many as the calls that returned True
C5_AppendOnly ==
    [][/\ \/ db' = db
          \/ /\ Len(db') = Len(db) + 1
             /\ SubSeq(db', 1, Len(db)) = db
             /\ AddReturned'
             /\ last'.val = "True"
       /\ (AddReturned' /\ last'.val = "True") => Len(db') = Len(db) + 1
       /\ (AddReturned' /\ last'.val = "False") => db' = db
       /\ last'.what \in {"song_exists", "get_all_songs"} => db' = db
       /\ Len(db') >= Len(db)
       /\ Len(db') = Len(log')]_vars

\* a second record has just been stored
C5_Witness ==
    /\ AddReturned
    /\ last.val = "True"
    /\ Len(db) = 2

\* some stored record has this title and this artist, case-insensitively
Stored(title, artist) ==
    \E i \in DOMAIN db :
        EqIgnoreCase(db[i].title, title) /\ EqIgnoreCase(db[i].artist, artist)

\* C6: song_exists is true exactly when some stored record matches the
\* arguments on the title and on the artist, letter case aside and nothing
\* else aside
C6_ExistsIffBothMatch ==
    /\ \A title \in Titles, artist \in Artists :
          song_exists(db, title, artist) <=> Stored(title, artist)
    /\ last.what = "song_exists" =>
          (last.val = "True" <=> Stored(last.arg.title, last.arg.artist))

\* "Wa" by "AB" and "Wa" by "AB, A" are both stored; "WA" by "ab" is reported
\* present, "Wa" by "AB " is not
C6_Witness ==
    /\ Len(db) = 2
    /\ db[1].title = Wa /\ db[1].artist = AB
    /\ db[2].title = Wa /\ db[2].artist = ABcA
    /\ last.what = "song_exists"
    /\ last.arg.title = WA /\ last.arg.artist = ab
    /\ last.val = "True"
    /\ ~song_exists(db, Wa, ABsp)

\* the "added_at" of a document, the empty text when it has none
AddedAt(doc) == IF "added_at" \in DOMAIN doc THEN doc.added_at ELSE <<>>

Count(s, x) == Cardinality({i \in DOMAIN s : s[i] = x})

\* C7: get_all_songs returns every stored record exactly once, ordered by
\* added_at non-increasing, a record without added_at as if it were the empty
\* text: behind every record that has one
C7_NewestFirst ==
    last.what = "get_all_songs" =>
        /\ Len(listing) = Len(db)
        /\ \A i \in DOMAIN db : Count(listing, db[i]) = Count(db, db[i])
        /\ \A i, j \in DOMAIN listing :
              i < j => ~StrLess(AddedAt(listing[i]), AddedAt(listing[j]))
        /\ \A i, j \in DOMAIN listing :
              ("added_at" \in DOMAIN listing[i] /\ "added_at" \notin DOMAIN listing[j]) => i < j

\* a record without added_at was stored first and is listed last, behind
\* "01" and "00.000001"
C7_Witness ==
    /\ last.what = "get_all_songs"
    /\ Len(db) = 3
    /\ "added_at" \notin DOMAIN db[1]
    /\ AddedAt(db[2]) = isoformat(<<0, 1>>)
    /\ AddedAt(db[3]) = isoformat(<<1, 0>>)
    /\ listing = <<db[3], db[2], db[1]>>

\* C8: the sheet is touched only by the step that follows an add_song_to_db
\* that returned True; whatever the backup does, that step leaves the store
\* as it is, with the record in it, shows "song_added" and clears the form
C8_BackupIsolated ==
    [][/\ \A s \in Callers :
            (pc[s] = "add_done" /\ ret[s] = "True" /\ pc'[s] # "add_done") =>
                /\ last'.what = "song_added"
                /\ last'.who = s
                /\ last'.val \in {"True", "False", "Backup failed"}
                /\ db' = db
                /\ \E i \in DOMAIN db : log[i].who = s /\ MadeFrom(db[i], found_song[s])
                /\ found_song'[s] = None
                /\ ~show_confirmation'[s]
                /\ pc'[s] = "idle"
       /\ (sheet' # sheet \/ sheet_exists' # sheet_exists) =>
            \E s \in Callers : pc[s] = "add_done" /\ ret[s] = "True" /\ pc'[s] = "idle"]_vars

\* the backup has failed after the sheet was created; the song is stored and
\* reported as added
C8_Witness ==
    /\ last.what = "song_added"
    /\ last.val = "Backup failed"
    /\ sheet_exists
    /\ sheet = <<Header>>
    /\ \E i \in DOMAIN db : log[i].who = last.who /\ MadeFrom(db[i], last.arg)
    /\ found_song[last.who] = None

\* C9: a search that ends in "no_songs_found" or in "spotify_error" enters
\* no add_song_to_db, leaves the store and the sheet as they are and leaves
\* the pending candidate as it was
C9_FailedSearch ==
    [][last'.what \in {"no_songs_found", "spotify_error"} =>
         /\ db' = db
         /\ log' = log
         /\ pc' = pc
         /\ pc[last'.who] = "idle"
         /\ song_data' = song_data
         /\ found_song' = found_song
         /\ show_confirmation' = show_confirmation
         /\ sheet' = sheet]_vars

\* nothing was found while a candidate was pending and a song was stored
C9_Witness ==
    /\ last.what = "no_songs_found"
    /\ found_song[last.who] # None
    /\ show_confirmation[last.who]
    /\ db # <<>>

\* C10: "add_failed" is shown to a session only when another session has
\* stored the same song after the session's own check and before the check
\* of add_song_to_db; the step stores nothing, backs nothing up and leaves
\* the candidate pending
C10_AddFailedByRace ==
    [][last'.what = "add_failed" =>
         LET s == last'.who
         IN  /\ pc[s] = "add_done" /\ ret[s] = "False"
             /\ found_song[s] # None
             /\ \E i \in DOMAIN db :
                   /\ i > seen_len[s]
                   /\ log[i].who # s
                   /\ SameSong(db[i], found_song[s])
             /\ \A i \in DOMAIN db :
                   SameSong(db[i], found_song[s]) => i > seen_len[s]
             /\ db' = db
             /\ sheet' = sheet
             /\ sheet_exists' = sheet_exists
             /\ found_song'[s] = found_song[s]
             /\ show_confirmation'[s]]_vars

\* "add_failed" has been shown
C10_Witness ==
    /\ last.what = "add_failed"
    /\ found_song[last.who] # None
    /\ \E i \in DOMAIN db : log[i].who # last.who /\ SameSong(db[i], found_song[last.who])

====
